---- MODULE Spec2Model ----
(***************************************************************************)
(* A model of org-to-anki (src/main.py): htmlify, the markup-to-HTML       *)
(* transformer, as a step machine over a text of characters; generate_id;  *)
(* and the per-node loop of main.  A text is a sequence of one-character   *)
(* strings, so that escaping, the three regular-expression passes and the  *)
(* list restructuring act on characters as the Python code does.           *)
(***************************************************************************)
EXTENDS Integers, Sequences, FiniteSets, TLC

VARIABLES input, text, pc, lines, list_levels, out_text,
          nodes, create_ids, idx, mpc, question, answer, deck,
          htmlified, id_generated

hvars == <<input, text, pc, lines, list_levels, out_text>>
mvars == <<nodes, create_ids, idx, mpc, question, answer, deck,
           htmlified, id_generated>>
vars == <<input, text, pc, lines, list_levels, out_text,
          nodes, create_ids, idx, mpc, question, answer, deck,
          htmlified, id_generated>>

----
\* Bounds of the model.
MaxLen == 4
MaxLines == 4
MaxParts == 4
MaxNodes == 2

----
\* Characters and the literal strings of the code.
NL == "\n"
Whitespace == {" ", "\t", NL}

TagEm == <<"<", "e", "m", ">">>
TagEmClose == <<"<", "/", "e", "m", ">">>
TagStrong == <<"<", "s", "t", "r", "o", "n", "g", ">">>
TagStrongClose == <<"<", "/", "s", "t", "r", "o", "n", "g", ">">>
TagCode == <<"<", "c", "o", "d", "e", ">">>
TagCodeClose == <<"<", "/", "c", "o", "d", "e", ">">>
TagUl == <<"<", "u", "l", ">">>
TagUlClose == <<"<", "/", "u", "l", ">">>
TagLi == <<"<", "l", "i", ">">>
TagLiClose == <<"<", "/", "l", "i", ">">>
TagBr == <<"<", "b", "r", ">">>

Tags == {TagEm, TagEmClose, TagStrong, TagStrongClose, TagCode, TagCodeClose,
         TagUl, TagUlClose, TagLi, TagLiClose, TagBr}

----
\* Helpers on sequences.
Last(s) == s[Len(s)]
Front(s) == SubSeq(s, 1, Len(s) - 1)

\* The least j in i+1..Len(t) with t[j] = d, or 0.
RECURSIVE NextIndex(_, _, _)
NextIndex(t, d, i) ==
  IF i + 1 > Len(t) THEN 0
  ELSE IF t[i + 1] = d THEN i + 1
  ELSE NextIndex(t, d, i + 1)

\* Whether pat occurs in t at position i.
OccursAt(t, pat, i) ==
  /\ i >= 1
  /\ i + Len(pat) - 1 <= Len(t)
  /\ \A k \in 1..Len(pat) : t[i + k - 1] = pat[k]

\* Number of occurrences of pat in t.
Count(t, pat) == Cardinality({i \in 1..Len(t) : OccursAt(t, pat, i)})

----
\* A strip of one leading star only.
LstripOneStar(t) == IF t # <<>> /\ Head(t) = "*" THEN Tail(t) ELSE t

\* text.lstrip("*")
RECURSIVE LstripStars(_)
LstripStars(t) ==
  IF t # <<>> /\ Head(t) = "*" THEN LstripStars(Tail(t)) ELSE t

\* An escape that forgets ">".
EscapeCharNoGt(c) ==
  CASE c = "&" -> <<"&", "a", "m", "p", ";">>
    [] c = "<" -> <<"&", "l", "t", ";">>
    [] OTHER -> <<c>>

\* html.escape(text), quote=True
EscapeChar(c) ==
  CASE c = "&" -> <<"&", "a", "m", "p", ";">>
    [] c = "<" -> <<"&", "l", "t", ";">>
    [] c = ">" -> <<"&", "g", "t", ";">>
    [] c = "\"" -> <<"&", "q", "u", "o", "t", ";">>
    [] c = "'" -> <<"&", "#", "x", "2", "7", ";">>
    [] OTHER -> <<c>>

RECURSIVE EscapeFrom(_, _)
EscapeFrom(t, i) ==
  IF i > Len(t) THEN <<>> ELSE EscapeChar(t[i]) \o EscapeFrom(t, i + 1)

EscapeText(t) == EscapeFrom(t, 1)

\* re.sub(d ([^d]+) d, " <tag>\1</tag> ", t): leftmost non-overlapping
\* matches; a match at i needs the next d at j > i + 1.
RECURSIVE SubDelimFrom(_, _, _, _, _)
SubDelimFrom(t, d, open, close, i) ==
  IF i > Len(t) THEN <<>>
  ELSE LET j == NextIndex(t, d, i)
       IN IF t[i] = d /\ j > i + 1
          THEN <<" ">> \o open \o SubSeq(t, i + 1, j - 1) \o close \o <<" ">>
               \o SubDelimFrom(t, d, open, close, j + 1)
          ELSE <<t[i]>> \o SubDelimFrom(t, d, open, close, i + 1)

\* re.sub(r"/([^/]+)/", r" <em>\1</em> ", text)
SubEm(t) == SubDelimFrom(t, "/", TagEm, TagEmClose, 1)

\* re.sub(r"\*([^\*]+)\*", r" <strong>\1</strong> ", text)
SubStrong(t) == SubDelimFrom(t, "*", TagStrong, TagStrongClose, 1)

\* Whether r" =([^=]+)= " matches t at i; the closing "=" is then at
\* CodeClose(t, i).
CodeClose(t, i) == NextIndex(t, "=", i + 1)

CodeMatchAt(t, i) ==
  /\ i + 1 <= Len(t)
  /\ t[i] = " "
  /\ t[i + 1] = "="
  /\ CodeClose(t, i) > i + 2
  /\ CodeClose(t, i) + 1 <= Len(t)
  /\ t[CodeClose(t, i) + 1] = " "

RECURSIVE SubCodeFrom(_, _)
SubCodeFrom(t, i) ==
  IF i > Len(t) THEN <<>>
  ELSE IF CodeMatchAt(t, i)
       THEN <<" ">> \o TagCode \o SubSeq(t, i + 2, CodeClose(t, i) - 1)
            \o TagCodeClose \o <<" ">>
            \o SubCodeFrom(t, CodeClose(t, i) + 2)
       ELSE <<t[i]>> \o SubCodeFrom(t, i + 1)

\* A code pass whose pattern is =([^=]+)=, without the bounding spaces.
SubCodeUnbounded(t) == SubDelimFrom(t, "=", TagCode, TagCodeClose, 1)

\* re.sub(r" =([^=]+)= ", r" <code>\1</code> ", text)
SubCode(t) == SubCodeFrom(t, 1)

\* A split that yields no line for an empty text or an empty last line.
RECURSIVE SplitDropEmpty(_)
SplitDropEmpty(t) ==
  LET j == NextIndex(t, NL, 0)
  IN IF t = <<>> THEN <<>>
     ELSE IF j = 0 THEN <<t>>
     ELSE <<SubSeq(t, 1, j - 1)>> \o SplitDropEmpty(SubSeq(t, j + 1, Len(t)))

\* text.split("\n"): always at least one line.
RECURSIVE Split(_)
Split(t) ==
  LET j == NextIndex(t, NL, 0)
  IN IF j = 0 THEN <<t>>
     ELSE <<SubSeq(t, 1, j - 1)>> \o Split(SubSeq(t, j + 1, Len(t)))

\* len(re.match(r"^\s*", line).group(0))
RECURSIVE Level(_)
Level(line) ==
  IF line # <<>> /\ Head(line) \in Whitespace THEN 1 + Level(Tail(line)) ELSE 0

\* re.match(r"^(\s)*-", line)
IsListItem(line) ==
  /\ Level(line) < Len(line)
  /\ line[Level(line) + 1] = "-"

\* line.strip()
RECURSIVE Rstrip(_)
Rstrip(s) ==
  IF s # <<>> /\ Last(s) \in Whitespace THEN Rstrip(Front(s)) ELSE s

Strip(s) == Rstrip(SubSeq(s, Level(s) + 1, Len(s)))

\* n closing list-container tags.
RECURSIVE Closers(_)
Closers(n) == IF n = 0 THEN <<>> ELSE TagUlClose \o Closers(n - 1)

\* The if/elif on the top of the stack for a list-item line.
ListBranch(levels, level) ==
  IF levels = <<>> \/ Last(levels) < level THEN "push"
  ELSE IF Last(levels) > level THEN "pop"
  ELSE "same"

\* A list-item line that closes every level deeper than its own, then
\* opens its own level if the top is shallower.
RECURSIVE PopDeeper(_, _)
PopDeeper(levels, level) ==
  IF levels # <<>> /\ Last(levels) > level THEN PopDeeper(Front(levels), level)
  ELSE levels

ListItemLinePopAll(levels, out, line) ==
  LET level == Level(line)
      kept == PopDeeper(levels, level)
      o == out \o Closers(Len(levels) - Len(kept))
      push == kept = <<>> \/ Last(kept) < level
  IN [levels |-> IF push THEN Append(kept, level) ELSE kept,
      out |-> (IF push THEN o \o TagUl ELSE o)
              \o TagLi \o Tail(Strip(line)) \o TagLiClose \o <<NL>>]

\* The body of the loop for a list-item line.
ListItemLine(levels, out, line) ==
  LET level == Level(line)
      b == ListBranch(levels, level)
      lv == CASE b = "push" -> Append(levels, level)
              [] b = "pop" -> Front(levels)
              [] OTHER -> levels
      o == CASE b = "push" -> out \o TagUl
             [] b = "pop" -> out \o TagUlClose
             [] OTHER -> out
  IN [levels |-> lv,
      out |-> o \o TagLi \o Tail(Strip(line)) \o TagLiClose \o <<NL>>]

\* A non-list line that leaves the open lists open.
NonListLineNoDrain(levels, out, line) ==
  [levels |-> levels, out |-> out \o Strip(line) \o TagBr \o <<NL>>]

\* The body of the loop for any other line.
NonListLine(levels, out, line) ==
  [levels |-> <<>>,
   out |-> out \o Closers(Len(levels)) \o Strip(line) \o TagBr \o <<NL>>]

\* One iteration of the loop.
LoopBody(levels, out, line) ==
  IF IsListItem(line) THEN ListItemLine(levels, out, line)
  ELSE NonListLine(levels, out, line)

\* A return without the drain.
DrainNone(levels, out) == out

\* The drain after the loop.
DrainAll(levels, out) == out \o Closers(Len(levels))

RECURSIVE RenderFrom(_, _, _)
RenderFrom(ls, levels, out) ==
  IF ls = <<>> THEN DrainAll(levels, out)
  ELSE LET r == LoopBody(levels, out, Head(ls))
       IN RenderFrom(Tail(ls), r.levels, r.out)

\* The three substitution passes, in the code's order.
Inline(t) == SubCode(SubStrong(SubEm(t)))

\* htmlify as a function of its argument.
htmlify(t) == RenderFrom(Split(Inline(EscapeText(LstripStars(t)))), <<>>, <<>>)

----
\* The input sets of the specifications.
Strings(A, n) == UNION {[1..k -> A] : k \in 0..n}

RECURSIVE Concat(_)
Concat(ss) == IF ss = <<>> THEN <<>> ELSE Head(ss) \o Concat(Tail(ss))

\* "\n".join(ls)
RECURSIVE Join(_)
Join(ls) ==
  IF ls = <<>> THEN <<>>
  ELSE IF Len(ls) = 1 THEN Head(ls)
  ELSE Head(ls) \o <<NL>> \o Join(Tail(ls))

\* Every text of at most MaxLen of these characters.
TextAlphabet == {" ", NL, "-", "*", "/", "=", "<", ">", "&", "a"}
TextInputs == Strings(TextAlphabet, MaxLen)

\* Every block of at most MaxLines of these lines.
LineSet == {<<"-", "a">>, <<" ", "-", "b">>, <<" ", " ", "-", "c">>,
            <<"t">>, <<"<", "u", "l", ">">>}
ListInputs == {Join(ls) : ls \in Strings(LineSet, MaxLines)}

\* Every text of at most MaxParts of these words.
Parts == {<<" ">>, <<NL>>, <<"-">>, <<"*">>, <<"/">>, <<"a">>,
          <<"/", "a", "/">>, <<"*", "a", "*">>, <<"=", "a", "=">>}
InlineInputs == {Concat(ps) : ps \in Strings(Parts, MaxParts)}

----
\* htmlify, one action per statement; the loop body is one action per
\* branch taken.
HInit(inputs) ==
  /\ input \in inputs
  /\ text = input
  /\ pc = "lstrip"
  /\ lines = <<>>
  /\ list_levels = <<>>
  /\ out_text = <<>>

\* text = text.lstrip("*")
Lstrip ==
  /\ pc = "lstrip"
  /\ text' = LstripStars(text)
  /\ pc' = "escape"
  /\ UNCHANGED <<input, lines, list_levels, out_text>>

\* text = escape(text)
Escape ==
  /\ pc = "escape"
  /\ text' = EscapeText(text)
  /\ pc' = "em"
  /\ UNCHANGED <<input, lines, list_levels, out_text>>

SubEmphasis ==
  /\ pc = "em"
  /\ text' = SubEm(text)
  /\ pc' = "strong"
  /\ UNCHANGED <<input, lines, list_levels, out_text>>

SubStrongPass ==
  /\ pc = "strong"
  /\ text' = SubStrong(text)
  /\ pc' = "code"
  /\ UNCHANGED <<input, lines, list_levels, out_text>>

SubCodePass ==
  /\ pc = "code"
  /\ text' = SubCode(text)
  /\ pc' = "split"
  /\ UNCHANGED <<input, lines, list_levels, out_text>>

\* list_levels = []; out_text = ""; for line in text.split("\n")
SplitLines ==
  /\ pc = "split"
  /\ lines' = Split(text)
  /\ list_levels' = <<>>
  /\ out_text' = <<>>
  /\ pc' = "loop"
  /\ UNCHANGED <<input, text>>

\* One iteration of the loop on the next line, taking branch b.
ListStep(b) ==
  /\ pc = "loop"
  /\ lines # <<>>
  /\ IsListItem(Head(lines))
  /\ ListBranch(list_levels, Level(Head(lines))) = b
  /\ LET r == LoopBody(list_levels, out_text, Head(lines))
     IN /\ list_levels' = r.levels
        /\ out_text' = r.out
  /\ lines' = Tail(lines)
  /\ UNCHANGED <<input, text, pc>>

ListPush == ListStep("push")
ListPop == ListStep("pop")
ListSame == ListStep("same")

NonList ==
  /\ pc = "loop"
  /\ lines # <<>>
  /\ ~IsListItem(Head(lines))
  /\ LET r == LoopBody(list_levels, out_text, Head(lines))
     IN /\ list_levels' = r.levels
        /\ out_text' = r.out
  /\ lines' = Tail(lines)
  /\ UNCHANGED <<input, text, pc>>

\* while len(list_levels) > 0 after the loop; return out_text
FinalDrain ==
  /\ pc = "loop"
  /\ lines = <<>>
  /\ out_text' = DrainAll(list_levels, out_text)
  /\ list_levels' = <<>>
  /\ pc' = "done"
  /\ UNCHANGED <<input, text, lines>>

MainIdle ==
  /\ nodes = <<>>
  /\ create_ids = FALSE
  /\ idx = 1
  /\ mpc = "end"
  /\ question = <<>>
  /\ answer = <<>>
  /\ deck = <<>>
  /\ htmlified = {}
  /\ id_generated = {}

HNext ==
  \/ Lstrip /\ UNCHANGED mvars
  \/ Escape /\ UNCHANGED mvars
  \/ SubEmphasis /\ UNCHANGED mvars
  \/ SubStrongPass /\ UNCHANGED mvars
  \/ SubCodePass /\ UNCHANGED mvars
  \/ SplitLines /\ UNCHANGED mvars
  \/ ListPush /\ UNCHANGED mvars
  \/ ListPop /\ UNCHANGED mvars
  \/ ListSame /\ UNCHANGED mvars
  \/ NonList /\ UNCHANGED mvars
  \/ FinalDrain /\ UNCHANGED mvars

InitText == HInit(TextInputs) /\ MainIdle
InitList == HInit(ListInputs) /\ MainIdle
InitInline == HInit(InlineInputs) /\ MainIdle

SpecText == InitText /\ [][HNext]_vars
SpecList == InitList /\ [][HNext]_vars
SpecInline == InitInline /\ [][HNext]_vars

\* The machine computes htmlify(input).
StepsAgree == pc = "done" => out_text = htmlify(input)

----
\* generate_id and the per-node loop of main.

\* The byte values the digest reads for the characters of the model.
Code(c) ==
  CASE c = "A" -> 65 [] c = "B" -> 66 [] c = "a" -> 97 [] c = "b" -> 98
    [] c = "-" -> 45 [] c = " " -> 32 [] c = "*" -> 42 [] OTHER -> 63

\* uuid.NAMESPACE_DNS, 6ba7b810-9dad-11d1-80b4-00c04fd430c8: its first bytes.
NAMESPACE_DNS == <<107, 167, 184, 16>>

DigestModulus == 65536

\* uuid.uuid5(namespace, name): a digest of the namespace bytes followed by
\* the bytes of name (SHA-1 in the library; here a polynomial digest of the
\* same bytes, kept to 16 bits).
RECURSIVE Digest(_, _)
Digest(bytes, acc) ==
  IF bytes = <<>> THEN acc
  ELSE Digest(Tail(bytes), (acc * 31 + Head(bytes)) % DigestModulus)

Uuid5(namespace, name) ==
  Digest(namespace \o [i \in 1..Len(name) |-> Code(name[i])], 0)

\* str(uuid): the digest written in hexadecimal digits.
HexDigits ==
  <<"0", "1", "2", "3", "4", "5", "6", "7",
    "8", "9", "a", "b", "c", "d", "e", "f">>

UuidStr(n) ==
  <<HexDigits[((n \div 4096) % 16) + 1], HexDigits[((n \div 256) % 16) + 1],
    HexDigits[((n \div 16) % 16) + 1], HexDigits[(n % 16) + 1]>>

\* An identifier derived from the body as well as the heading.
GenerateIdFromBody(namespace, node) ==
  UuidStr(Uuid5(namespace, node.heading \o node.body))

\* generate_id(namespace, node)
generate_id(namespace, node) == UuidStr(Uuid5(namespace, node.heading))

\* node.properties is a set of <<name, value>> pairs with at most one
\* value per name; a value is a text, "" is <<>>.
HasProperty(node, name) == \E pr \in node.properties : pr[1] = name
GetProperty(node, name) ==
  (CHOOSE pr \in node.properties : pr[1] = name)[2]
SetProperty(node, name, value) ==
  [node EXCEPT !.properties =
     {pr \in node.properties : pr[1] # name} \cup {<<name, value>>}]

\* node.get_property("ID") == "" or node.get_property("ID") is None
HasNoId(node) ==
  IF HasProperty(node, "ID") THEN GetProperty(node, "ID") = <<>> ELSE TRUE

\* A tag test that never matches.
TagNeverMatches(node) == "noexport" \in node.tags

\* "no-export" in node.tags
NoExport(node) == "no-export" \in node.tags

\* node.body == ""
EmptyBody(node) == node.body = <<>>

\* isinstance(node, orgparse.OrgNode): false of the root of the document,
\* which the iteration yields first.
IsOrgNode(node) == node.kind = "node"

Headings == {<<"A">>, <<"*", "B", "*">>}
Bodies == {<<>>, <<"-", "b">>}
PropertySets == {{}, {<<"ID", <<>>>>}, {<<"ID", <<"i", "d">>>>}}
TagSets == {{}, {"no-export"}}
OrgNodes ==
  [kind : {"node"}, heading : Headings, body : Bodies, tags : TagSets,
   properties : PropertySets]
Root ==
  [kind |-> "root", heading |-> <<>>, body |-> <<>>, tags |-> {},
   properties |-> {}]
Documents == {<<Root>> \o ns : ns \in Strings(OrgNodes, MaxNodes)}

HtmlIdle ==
  /\ input = <<>>
  /\ text = <<>>
  /\ pc = "idle"
  /\ lines = <<>>
  /\ list_levels = <<>>
  /\ out_text = <<>>

InitMain ==
  /\ nodes \in Documents
  /\ create_ids \in BOOLEAN
  /\ idx = 1
  /\ mpc = "iter"
  /\ question = <<>>
  /\ answer = <<>>
  /\ deck = <<>>
  /\ htmlified = {}
  /\ id_generated = {}
  /\ HtmlIdle

\* for node in org: the root is no OrgNode and is passed over.
SkipRoot ==
  /\ mpc = "iter"
  /\ idx <= Len(nodes)
  /\ ~IsOrgNode(nodes[idx])
  /\ idx' = idx + 1
  /\ UNCHANGED <<nodes, create_ids, mpc, question, answer, deck,
                 htmlified, id_generated>>

\* if "no-export" in node.tags: continue
SkipNoExport ==
  /\ mpc = "iter"
  /\ idx <= Len(nodes)
  /\ IsOrgNode(nodes[idx])
  /\ NoExport(nodes[idx])
  /\ idx' = idx + 1
  /\ UNCHANGED <<nodes, create_ids, mpc, question, answer, deck,
                 htmlified, id_generated>>

EnterNode ==
  /\ mpc = "iter"
  /\ idx <= Len(nodes)
  /\ IsOrgNode(nodes[idx])
  /\ ~NoExport(nodes[idx])
  /\ mpc' = "ids"
  /\ UNCHANGED <<nodes, create_ids, idx, question, answer, deck,
                 htmlified, id_generated>>

\* node.properties["ID"] = generate_id(uuid.NAMESPACE_DNS, node)
AssignId ==
  /\ mpc = "ids"
  /\ create_ids
  /\ HasNoId(nodes[idx])
  /\ nodes' = [nodes EXCEPT ![idx] =
                 SetProperty(@, "ID", generate_id(NAMESPACE_DNS, @))]
  /\ id_generated' = id_generated \cup {idx}
  /\ mpc' = "htmlify"
  /\ UNCHANGED <<create_ids, idx, question, answer, deck, htmlified>>

KeepId ==
  /\ mpc = "ids"
  /\ ~(create_ids /\ HasNoId(nodes[idx]))
  /\ mpc' = "htmlify"
  /\ UNCHANGED <<nodes, create_ids, idx, question, answer, deck,
                 htmlified, id_generated>>

\* question = htmlify(node.heading); answer = htmlify(node.body)
HtmlifyNode ==
  /\ mpc = "htmlify"
  /\ question' = htmlify(nodes[idx].heading)
  /\ answer' = htmlify(nodes[idx].body)
  /\ htmlified' = htmlified \cup {idx}
  /\ mpc' = "body"
  /\ UNCHANGED <<nodes, create_ids, idx, deck, id_generated>>

\* if node.body == "": continue
SkipEmptyBody ==
  /\ mpc = "body"
  /\ EmptyBody(nodes[idx])
  /\ idx' = idx + 1
  /\ mpc' = "iter"
  /\ UNCHANGED <<nodes, create_ids, question, answer, deck,
                 htmlified, id_generated>>

\* deck.add_note(OrgUIDNote(model, [question, answer], guid))
AddNote ==
  /\ mpc = "body"
  /\ ~EmptyBody(nodes[idx])
  /\ deck' = Append(deck,
                    [node |-> idx,
                     fields |-> <<question, answer>>,
                     guid |-> IF HasProperty(nodes[idx], "ID")
                              THEN {GetProperty(nodes[idx], "ID")} ELSE {}])
  /\ idx' = idx + 1
  /\ mpc' = "iter"
  /\ UNCHANGED <<nodes, create_ids, question, answer, htmlified,
                 id_generated>>

\* The loop is over: the package is written.
WritePackage ==
  /\ mpc = "iter"
  /\ idx > Len(nodes)
  /\ mpc' = "end"
  /\ UNCHANGED <<nodes, create_ids, idx, question, answer, deck,
                 htmlified, id_generated>>

MNext ==
  \/ SkipRoot /\ UNCHANGED hvars
  \/ SkipNoExport /\ UNCHANGED hvars
  \/ EnterNode /\ UNCHANGED hvars
  \/ AssignId /\ UNCHANGED hvars
  \/ KeepId /\ UNCHANGED hvars
  \/ HtmlifyNode /\ UNCHANGED hvars
  \/ SkipEmptyBody /\ UNCHANGED hvars
  \/ AddNote /\ UNCHANGED hvars
  \/ WritePackage /\ UNCHANGED hvars

SpecMain == InitMain /\ [][MNext]_vars

----
\* Properties of htmlify.

Chars(t) == {t[i] : i \in 1..Len(t)}
Prefix(t, n) == SubSeq(t, 1, n)
EndsWith(t, suf) == OccursAt(t, suf, Len(t) - Len(suf) + 1)

\* C1: the output holds as many opening list-container tags as closing
\* ones: while the loop runs the excess of <ul> over </ul> is the height of
\* the List Level Stack, and the stack is empty when htmlify returns.
C1_ListBalance ==
  /\ pc \in {"loop", "done"} =>
       Count(out_text, TagUl) - Count(out_text, TagUlClose) = Len(list_levels)
  /\ pc = "done" =>
       /\ list_levels = <<>>
       /\ Count(out_text, TagUl) = Count(out_text, TagUlClose)

\* A returned block that opened a nested list and whose input held the
\* text "<ul>" itself.
C1_Witness ==
  /\ pc = "done"
  /\ Count(out_text, TagUl) >= 2
  /\ \E i \in 1..Len(input) : OccursAt(input, TagUl, i)

\* C2: every "<" of the output begins, and every ">" of the output ends,
\* one of the tags the transformer emits; no "<" or ">" of the input
\* reaches the output unescaped.
C2_OnlyOwnTags ==
  pc = "done" =>
    \A i \in 1..Len(out_text) :
      /\ out_text[i] = "<" => \E tag \in Tags : OccursAt(out_text, tag, i)
      /\ out_text[i] = ">" =>
           \E tag \in Tags : OccursAt(out_text, tag, i - Len(tag) + 1)

\* A returned text whose input held "<" and ">" inside an emphasis span.
C2_Witness ==
  /\ pc = "done"
  /\ {"<", ">"} \subseteq Chars(input)
  /\ \E i \in 1..Len(out_text) : OccursAt(out_text, TagEm, i)
  /\ \E i \in 1..Len(out_text) : OccursAt(out_text, <<"&", "g", "t", ";">>, i)

\* C3 as claimed: htmlify of the empty string returns the empty string.
C3_EmptyYieldsEmpty == (pc = "done" /\ input = <<>>) => out_text = <<>>

\* C3 as amended: htmlify of the empty string returns "<br>\n": the split
\* of the empty text is one empty line, so the loop runs once; no list tag
\* is emitted.
C3_EmptyYieldsBreak ==
  (pc = "done" /\ input = <<>>) => out_text = TagBr \o <<NL>>

\* htmlify has returned on the empty string.
C3_Witness == pc = "done" /\ input = <<>> /\ out_text # <<>>

\* C4: a step on a line that is not a list item empties the List Level
\* Stack, appends one closing tag per level that was open and only then
\* the trimmed line and <br>, so the line's content follows a prefix in
\* which every opened list is closed.
C4_NonListClosesFirst ==
  [][(pc = "loop" /\ lines # <<>> /\ ~IsListItem(Head(lines))) =>
       LET content == Strip(Head(lines)) \o TagBr \o <<NL>>
           before == Prefix(out_text', Len(out_text') - Len(content))
       IN /\ list_levels' = <<>>
          /\ EndsWith(out_text', content)
          /\ before = out_text \o Closers(Len(list_levels))
          /\ Count(before, TagUl) = Count(before, TagUlClose)]_vars

\* A non-list line has just been emitted right after the two closing tags
\* of a list that was open two levels deep.
C4_Witness ==
  /\ pc = "loop"
  /\ list_levels = <<>>
  /\ EndsWith(out_text,
              <<NL>> \o TagUlClose \o TagUlClose \o <<"t">> \o TagBr \o <<NL>>)

\* C8 as claimed: a list-item line shallower than the top of the stack
\* pops one level and is then evaluated again against the new top, which
\* pushes its depth and emits <ul> when the stack is empty or its top is
\* shallower; so the stack is not empty when the <li> is emitted.
C8_PopThenReevaluate ==
  [][(pc = "loop" /\ lines # <<>> /\ IsListItem(Head(lines))) =>
       LET level == Level(Head(lines))
           rest == Front(list_levels)
       IN /\ list_levels' # <<>>
          /\ (/\ list_levels # <<>>
              /\ Last(list_levels) > level
              /\ (rest = <<>> \/ Last(rest) < level)) =>
               /\ list_levels' = Append(rest, level)
               /\ OccursAt(out_text', TagUlClose \o TagUl \o TagLi,
                           Len(out_text) + 1)]_vars

\* C9: a step on a list-item line pops at most one level and emits at most
\* one closing tag; when it pops, the levels under the popped one stay.
C9_OnePopPerLine ==
  [][(pc = "loop" /\ lines # <<>> /\ IsListItem(Head(lines))) =>
       /\ Len(list_levels') >= Len(list_levels) - 1
       /\ Count(out_text', TagUlClose) <= Count(out_text, TagUlClose) + 1
       /\ Len(list_levels') < Len(list_levels) =>
            list_levels' = Front(list_levels)]_vars

\* A line of depth 0 has been processed under the open levels 0, 1, 2:
\* one level was closed and the stale level 1 is still on the stack.
C9_Witness ==
  /\ pc = "loop"
  /\ list_levels = <<0, 1>>
  /\ EndsWith(out_text,
              <<NL>> \o TagUlClose \o TagLi \o <<"a">> \o TagLiClose \o <<NL>>)

\* The number of "*" a text begins with.
RECURSIVE LeadingStars(_)
LeadingStars(t) ==
  IF t # <<>> /\ Head(t) = "*" THEN 1 + LeadingStars(Tail(t)) ELSE 0

\* The heading text h of an input (n stars, one space, h), n >= 1.
HeadingText == SubSeq(input, LeadingStars(input) + 2, Len(input))

\* htmlify has returned on (n stars, one space, h) with n >= 1 and h a
\* single line that does not begin with "*".
HeadingCase ==
  /\ pc = "done"
  /\ LeadingStars(input) >= 1
  /\ Len(input) > LeadingStars(input)
  /\ input[LeadingStars(input) + 1] = " "
  /\ NL \notin Chars(HeadingText)
  /\ (HeadingText = <<>> \/ Head(HeadingText) # "*")

\* C5 as claimed: htmlify of (n stars, one space, h) is htmlify(h) up to
\* surrounding whitespace.
C5_StarsHaveNoEffect ==
  HeadingCase => Strip(out_text) = Strip(htmlify(HeadingText))

\* C5 as amended: htmlify of (n stars, one space, h) is htmlify of (one
\* space, h): the star run is dropped first and the space after it stays
\* in the text; the result is htmlify(h) unless h begins with "=", where
\* that space can complete a code pattern that h alone does not match.
C5_StarsLeaveSpace ==
  HeadingCase =>
    /\ out_text = htmlify(<<" ">> \o HeadingText)
    /\ (HeadingText = <<>> \/ Head(HeadingText) # "=") =>
         out_text = htmlify(HeadingText)

\* htmlify has returned on two or more stars, a space and a heading with
\* an emphasis span.
C5_Witness ==
  /\ HeadingCase
  /\ LeadingStars(input) >= 2
  /\ \E i \in 1..Len(out_text) : OccursAt(out_text, TagEm, i)

\* The positions of c in t, in increasing order.
RECURSIVE PositionsFrom(_, _, _)
PositionsFrom(t, c, i) ==
  IF i > Len(t) THEN <<>>
  ELSE IF t[i] = c THEN <<i>> \o PositionsFrom(t, c, i + 1)
  ELSE PositionsFrom(t, c, i + 1)

\* What became of each "=" of the input, in order: the positions in the
\* output of the "=" left as they are, of the <code> tags and of the
\* </code> tags.  No step of htmlify adds, drops or reorders "=".
IsEqSlot(t, i) ==
  t[i] = "=" \/ OccursAt(t, TagCode, i) \/ OccursAt(t, TagCodeClose, i)

RECURSIVE EqSlotsFrom(_, _)
EqSlotsFrom(t, i) ==
  IF i > Len(t) THEN <<>>
  ELSE IF IsEqSlot(t, i) THEN <<i>> \o EqSlotsFrom(t, i + 1)
  ELSE EqSlotsFrom(t, i + 1)

InputEq == PositionsFrom(input, "=", 1)
OutputEq == EqSlotsFrom(out_text, 1)

\* The character of the input before, and after, position i ("" at the
\* ends of the text).
Before(i) == IF i > 1 THEN input[i - 1] ELSE ""
After(i) == IF i < Len(input) THEN input[i + 1] ELSE ""

----
\* Properties of generate_id and of main.

Noted(i) == \E k \in 1..Len(deck) : deck[k].node = i
Passed(i) == idx > i
Tagged(i) == "no-export" \in nodes[i].tags
Bodiless(i) == nodes[i].body = <<>>

\* C6: the identifiers main stores depend only on the namespace and the
\* heading: any two nodes that were given a generated identifier and have
\* equal headings hold equal identifiers, whatever their bodies, tags and
\* positions.
C6_IdFromHeadingOnly ==
  \A i \in id_generated : \A j \in id_generated :
    nodes[i].heading = nodes[j].heading =>
      GetProperty(nodes[i], "ID") = GetProperty(nodes[j], "ID")

\* Two nodes with one heading and different bodies both hold generated
\* identifiers.
C6_Witness ==
  \E i \in id_generated : \E j \in id_generated :
    /\ i # j
    /\ nodes[i].heading = nodes[j].heading
    /\ nodes[i].body # nodes[j].body

\* C7 as claimed: for a node with an empty body or the no-export tag,
\* neither htmlify nor generate_id is invoked and no note is added.
C7_FilteredBeforeCore ==
  \A i \in 1..Len(nodes) :
    (nodes[i].kind = "node" /\ (Bodiless(i) \/ Tagged(i))) =>
      /\ i \notin htmlified
      /\ i \notin id_generated
      /\ ~Noted(i)

\* C7 as amended: for a node with the no-export tag neither htmlify nor
\* generate_id is invoked and no note is added; a node with an empty body
\* and without that tag gets no note either, but only after htmlify has
\* run on its heading and body and, when identifiers are created and it
\* had none, after generate_id has given it one.
C7_FilteredByTagThenBody ==
  \A i \in 1..Len(nodes) :
    nodes[i].kind = "node" =>
      /\ Tagged(i) =>
           i \notin htmlified /\ i \notin id_generated /\ ~Noted(i)
      /\ Bodiless(i) => ~Noted(i)
      /\ (Bodiless(i) /\ ~Tagged(i) /\ Passed(i)) =>
           /\ i \in htmlified
           /\ create_ids => ~HasNoId(nodes[i])

\* The loop has passed a node with the tag and a node with an empty body
\* and no tag, for which an identifier was generated.
C7_Witness ==
  /\ \E i \in 1..Len(nodes) : Passed(i) /\ Tagged(i)
  /\ \E i \in 1..Len(nodes) :
       /\ Passed(i)
       /\ Bodiless(i)
       /\ i \in htmlified
       /\ i \in id_generated

====
